---------------------------- MODULE Spec2Model ----------------------------
(***************************************************************************)
(* TrendDrop - Trendtracker: the scraper control routes                    *)
(* (server/app/api/scraper_routes.py), the ingestion worker                *)
(* (server/app/services/agents/tdSCRAPER.py), the startup hook             *)
(* (server/main.py) and the product listing                                *)
(* (server/app/api/product_routes.py), as one state machine.               *)
(*                                                                         *)
(* The server is one asyncio event loop: a coroutine runs without          *)
(* interruption from one suspension point to the next.  A step of the      *)
(* model is the code between two suspension points.  The suspension points *)
(* of a pass are the awaits of search_trending_products                    *)
(* (_search_platform, _save_products) and, inside _save_products, the      *)
(* database round trips of one candidate (the lookup by (name, category),  *)
(* then the writes ending in commit).                                      *)
(* Every await is taken as a point where the coroutine may be suspended:   *)
(* the stub bodies of _search_platform and _save_products return without   *)
(* suspending, and the behaviours in which a pass runs all its steps in a  *)
(* row are among those of the model.                                       *)
(*                                                                         *)
(* run_scraper_task names the worker TDScraper(db, max_products=count,     *)
(* progress_callback=update_progress).run(); the class of tdSCRAPER.py is  *)
(* TdScraper and its entry point search_trending_products(count,           *)
(* progress_callback), which returns {"total_found": n}.  The model takes  *)
(* run() to be that method and found_count to be its total_found.          *)
(*                                                                         *)
(* Prices are kept in cents (the source rounds them to two decimals), so   *)
(* the 0.5 threshold is 50.  Timestamps (created_at, updated_at) and the   *)
(* columns that the worker never sets are left out of the rows.            *)
(***************************************************************************)
EXTENDS Integers, Sequences, FiniteSets, TLC

VARIABLES
    status,     \* the module globals of scraper_routes.py (the status register)
    db,         \* the committed rows: products, trends, regions, videos
    passes,     \* one record per pass (a run_scraper_task call and its TdScraper)
    loops,      \* one record per start_scheduler task
    response,   \* the response of the step just taken, when it is a request
    startup     \* the startup hook's position

vars == <<status, db, passes, loops, response, startup>>

(***************************************************************************)
(* Bounds of the model.                                                    *)
(***************************************************************************)
\* passes started in one behaviour
MaxPasses == 2
\* start_scheduler tasks spawned in one behaviour
MaxLoops == 1
\* iterations of the scheduler's minute loop (range(60) in the source)
MinutesPerCycle == 1
\* start_scheduler tasks spawned in the behaviours of the scheduler alone
MaxRespawnedLoops == 2

\* Products stored by the direct calls that draw the region allocations
MaxRegionProducts == 2
\* Product ids given out in the behaviours that delete Products
MaxProductIds == 2
\* candidates in one direct call of _save_products
MaxBatch == 2
\* Products stored in the behaviours that list Products
MaxListedProducts == 2
\* the largest page and the largest limit of a GET /products/ request
MaxPage == 2
MaxLimit == 2

\* MAX_PRODUCTS: int(os.getenv("MAX_PRODUCTS", "1000")); here the environment sets 4
MAX_PRODUCTS == 4

None == "None"
\* no row: what first() returns when the query matches nothing
NoRow == [id |-> 0]

Abs(x) == IF x < 0 THEN -x ELSE x
Max(a, b) == IF a >= b THEN a ELSE b

(***************************************************************************)
(* The catalog of search_trending_products, cut to two platforms and two   *)
(* categories (the source lists five and nine), and the subcategories of   *)
(* _generate_mock_product, cut to two per category (the source lists       *)
(* five).                                                                  *)
(***************************************************************************)
platforms == <<"tiktok", "instagram">>
categories == <<"home_decor", "kitchen_gadgets">>

subcategories ==
    [home_decor |-> <<"wall_art", "lighting">>,
     kitchen_gadgets |-> <<"utensils", "appliances">>]

\* s.replace('_', ' ').title()
Title(s) ==
    CASE s = "home_decor" -> "Home Decor"
      [] s = "kitchen_gadgets" -> "Kitchen Gadgets"
      [] s = "wall_art" -> "Wall Art"
      [] s = "lighting" -> "Lighting"
      [] s = "utensils" -> "Utensils"
      [] s = "appliances" -> "Appliances"

\* product_name = f"{subcategory.title()} {category.title()}"
ProductName(subcategory, category) == Title(subcategory) \o " " \o Title(category)

metrics ==
    <<"trend_score", "engagement_rate", "sales_velocity", "search_volume",
      "geographic_spread">>

(***************************************************************************)
(* _generate_mock_regions.  The quotients are computed in integers: for    *)
(* the percentages drawn below int((p / total) * 100) in floating point    *)
(* gives the same values.                                                  *)
(***************************************************************************)
\* countries of _generate_mock_regions
countries ==
    <<"United States", "United Kingdom", "Canada", "Australia", "Germany",
      "France", "Japan", "Brazil", "India", "Mexico">>

RECURSIVE Sum(_)
\* sum(normalized)
Sum(seq) == IF seq = <<>> THEN 0 ELSE Head(seq) + Sum(Tail(seq))

\* normalized = [int((p / total) * 100) for p in percentages]
Normalized(percentages) ==
    [k \in 1..Len(percentages) |-> (percentages[k] * 100) \div Sum(percentages)]

\* EnsureSum without the two loops
EnsureSum_skipped(normalized) == {normalized}

RECURSIVE EnsureSum(_)
\* "Ensure they sum to 100": every list the two while loops may end with, over
\* the draws of idx (an iteration of the second loop that draws an entry not
\* above 1 changes nothing)
EnsureSum(normalized) ==
    IF Sum(normalized) < 100
    THEN UNION { EnsureSum([normalized EXCEPT ![idx] = @ + 1]) :
                    idx \in 1..Len(normalized) }
    ELSE IF Sum(normalized) > 100
    THEN UNION { EnsureSum([normalized EXCEPT ![idx] = @ - 1]) :
                    idx \in { k \in 1..Len(normalized) : normalized[k] > 1 } }
    ELSE {normalized}

\* _generate_mock_regions: every allocation it may return when
\* random.randint(3, 6) is len(percentages) and the list comprehension draws
\* percentages; random.sample is taken to return the first countries
MockRegions(percentages) ==
    { [k \in 1..Len(percentages) |->
          [country |-> countries[k], percentage |-> normalized[k]]] :
        normalized \in EnsureSum(Normalized(percentages)) }

(***************************************************************************)
(* The values the random generator may draw, per use of the generator.     *)
(* Every value lies in the range the source draws from: trend_score        *)
(* 50..100, engagement_rate 20..100, sales_velocity 10..100, search_volume *)
(* 30..100, geographic_spread 20..100, price_low 5.00..60.00 and           *)
(* price_high 1.2..2.5 times price_low.                                    *)
(***************************************************************************)
\* the draws of a pass when the whole server is modelled
ServerDraws ==
    [subs |-> 1,
     trend_score |-> {50},
     engagement_rate |-> {20},
     sales_velocity |-> {10},
     search_volume |-> {30},
     geographic_spread |-> {20},
     prices |-> {<<1000, 1200>>},
     dates |-> {1},
     videos |-> {<<>>},
     regions |-> MockRegions(<<50, 30, 20>>)]

\* the draws of a pass when passes run one at a time (no forced start)
PassDraws ==
    [subs |-> 2,
     trend_score |-> {50, 60},
     engagement_rate |-> {20},
     sales_velocity |-> {10},
     search_volume |-> {30},
     geographic_spread |-> {20},
     prices |-> {<<1000, 1200>>},
     dates |-> {1},
     videos |-> {<<>>},
     regions |-> MockRegions(<<50, 30, 20>>)]

\* the draws of direct _save_products calls: one product name, more values
\* (95 and 100 differ by exactly 5% of 100; 1000 and 1050 by exactly 0.5)
SaveDraws ==
    [subs |-> 1,
     trend_score |-> {50, 60},
     engagement_rate |-> {95, 100},
     sales_velocity |-> {10},
     search_volume |-> {30},
     geographic_spread |-> {20},
     prices |-> {<<1000, 2000>>, <<1050, 2000>>, <<1000, 2100>>},
     dates |-> {1, 2},
     videos |-> {<<>>, <<1>>, <<1, 1>>},
     regions |-> MockRegions(<<50, 30, 20>>)]

\* _generate_mock_trends: one snapshot per day (the source makes 14); date is
\* datetime.now() less the day offset
MockTrends(date) ==
    <<[date |-> date, engagement_value |-> 100, sales_value |-> 70,
       search_value |-> 90]>>

\* _generate_mock_videos: nums are the random numbers of the video URLs
MockVideos(platform, product_name, nums) ==
    [k \in 1..Len(nums) |->
        [title |-> product_name, platform |-> platform, views |-> 1000,
         video_url |-> <<platform, nums[k]>>]]

\* _generate_mock_product: every product the generator may return
MockProducts(platform, category, draws) ==
    { [name |-> ProductName(subcategories[category][s], category),
       category |-> category,
       subcategory |-> subcategories[category][s],
       price_range_low |-> pr[1],
       price_range_high |-> pr[2],
       trend_score |-> ts,
       engagement_rate |-> er,
       sales_velocity |-> sv,
       search_volume |-> sw,
       geographic_spread |-> gs,
       trends |-> MockTrends(d),
       regions |-> r,
       videos |-> MockVideos(platform, ProductName(subcategories[category][s], category), v)] :
        s \in 1..draws.subs, pr \in draws.prices, ts \in draws.trend_score,
        er \in draws.engagement_rate, sv \in draws.sales_velocity,
        sw \in draws.search_volume, gs \in draws.geographic_spread,
        d \in draws.dates, v \in draws.videos, r \in draws.regions }

(***************************************************************************)
(* _save_products, one candidate at a time.                                *)
(***************************************************************************)
EmptyDb == [products |-> <<>>, trends |-> <<>>, regions |-> <<>>, videos |-> <<>>]

\* the ids of the rows of table products.  Row k of d.products has id k; a
\* deleted row keeps its place, with name None, so that ids are not reused
ProductIds(d) == { k \in 1..Len(d.products) : d.products[k].name # None }

\* db.query(func.count(Product.id)).scalar() or 0
ProductCount(d) == Cardinality(ProductIds(d))

\* ExistingProducts whose query matches nothing
ExistingProducts_none(d, product_data) == {}

\* the ids of the Products the query by (name, category) matches
ExistingProducts(d, product_data) ==
    { k \in 1..Len(d.products) :
        /\ d.products[k].name = product_data.name
        /\ d.products[k].category = product_data.category }

\* SignificantChange with >= for >: a change of exactly 5% counts
SignificantChange_ge(old_value, new_value) ==
    100 * Abs(old_value - new_value) >= 5 * Max(1, old_value)

\* abs(old_value - new_value) / max(1, old_value) > 0.05
SignificantChange(old_value, new_value) ==
    100 * Abs(old_value - new_value) > 5 * Max(1, old_value)

\* abs(existing.price_range_low - low) > 0.5 or abs(existing.price_range_high - high) > 0.5
PriceChange(existing_product, product_data) ==
    \/ Abs(existing_product.price_range_low - product_data.price_range_low) > 50
    \/ Abs(existing_product.price_range_high - product_data.price_range_high) > 50

\* UpdatedMetric that takes the candidate's value whenever the record is dirty
UpdatedMetric_when_dirty(row, existing_product, product_data, metric) ==
    IF \/ \E k \in 1..Len(metrics) :
             SignificantChange(existing_product[metrics[k]], product_data[metrics[k]])
       \/ PriceChange(existing_product, product_data)
    THEN product_data[metric]
    ELSE row[metric]

\* UpdatedMetric without the setattr: the column keeps its value
UpdatedMetric_keep(row, existing_product, product_data, metric) == row[metric]

\* the value of one metric column after the comparison loop and the commit:
\* setattr puts the candidate's value when the change from the loaded value is
\* significant, and the UPDATE leaves an unset column as the database has it
UpdatedMetric(row, existing_product, product_data, metric) ==
    IF SignificantChange(existing_product[metric], product_data[metric])
    THEN product_data[metric]
    ELSE row[metric]

\* has_updates
HasUpdates(existing_product, product_data) ==
    \/ \E k \in 1..Len(metrics) :
          SignificantChange(existing_product[metrics[k]], product_data[metrics[k]])
    \/ PriceChange(existing_product, product_data)

\* the Product row after the metric loop, the price check and the commit;
\* existing_product is the row as the query loaded it, row the row as the
\* database has it at the commit
UpdatedProduct(row, existing_product, product_data) ==
    [row EXCEPT
        !.trend_score = UpdatedMetric(row, existing_product, product_data, "trend_score"),
        !.engagement_rate = UpdatedMetric(row, existing_product, product_data, "engagement_rate"),
        !.sales_velocity = UpdatedMetric(row, existing_product, product_data, "sales_velocity"),
        !.search_volume = UpdatedMetric(row, existing_product, product_data, "search_volume"),
        !.geographic_spread = UpdatedMetric(row, existing_product, product_data, "geographic_spread"),
        !.price_range_low =
            IF PriceChange(existing_product, product_data)
            THEN product_data.price_range_low ELSE @,
        !.price_range_high =
            IF PriceChange(existing_product, product_data)
            THEN product_data.price_range_high ELSE @]

\* the Trend rows the update path adds: those whose date the query does not find.
\* The session is made with autoflush=False, so the query sees the rows of the
\* database and none of the rows added since the last flush.
NewTrends(d, id, trends_data) ==
    LET missing(t) == ~\E k \in 1..Len(d.trends) :
                          d.trends[k].product_id = id /\ d.trends[k].date = t.date
        kept == SelectSeq(trends_data, missing)
    IN  [k \in 1..Len(kept) |->
            [product_id |-> id, date |-> kept[k].date,
             engagement_value |-> kept[k].engagement_value,
             sales_value |-> kept[k].sales_value,
             search_value |-> kept[k].search_value]]

\* the Video rows the update path adds: those whose video_url the query does not find
NewVideos(d, id, videos_data) ==
    LET missing(v) == ~\E k \in 1..Len(d.videos) :
                          d.videos[k].product_id = id /\ d.videos[k].video_url = v.video_url
        kept == SelectSeq(videos_data, missing)
    IN  [k \in 1..Len(kept) |->
            [product_id |-> id, title |-> kept[k].title, platform |-> kept[k].platform,
             views |-> kept[k].views, video_url |-> kept[k].video_url]]

\* SaveExisting that also adds the candidate's Region rows when it updates
SaveExisting_with_regions(d, existing_product, product_data) ==
    LET id == existing_product.id
    IN  IF HasUpdates(existing_product, product_data)
        THEN [d EXCEPT
                !.products[id] = UpdatedProduct(@, existing_product, product_data),
                !.trends = @ \o NewTrends(d, id, product_data.trends),
                !.regions = @ \o
                    [k \in 1..Len(product_data.regions) |->
                        [product_id |-> id,
                         country |-> product_data.regions[k].country,
                         percentage |-> product_data.regions[k].percentage]],
                !.videos = @ \o NewVideos(d, id, product_data.videos)]
        ELSE d

\* the branch "if existing_product:" up to its commit
SaveExisting(d, existing_product, product_data) ==
    LET id == existing_product.id
    IN  IF HasUpdates(existing_product, product_data)
        THEN [d EXCEPT
                !.products[id] = UpdatedProduct(@, existing_product, product_data),
                !.trends = @ \o NewTrends(d, id, product_data.trends),
                !.videos = @ \o NewVideos(d, id, product_data.videos)]
        ELSE d

\* the branch "else:" (create new product) up to its commit; the new row's id
\* is the next of the sequence
SaveNew(d, product_data) ==
    LET id == Len(d.products) + 1
    IN  [products |-> Append(d.products,
            [id |-> id,
             name |-> product_data.name,
             category |-> product_data.category,
             subcategory |-> product_data.subcategory,
             price_range_low |-> product_data.price_range_low,
             price_range_high |-> product_data.price_range_high,
             trend_score |-> product_data.trend_score,
             engagement_rate |-> product_data.engagement_rate,
             sales_velocity |-> product_data.sales_velocity,
             search_volume |-> product_data.search_volume,
             geographic_spread |-> product_data.geographic_spread]),
         trends |-> d.trends \o
            [k \in 1..Len(product_data.trends) |->
                [product_id |-> id, date |-> product_data.trends[k].date,
                 engagement_value |-> product_data.trends[k].engagement_value,
                 sales_value |-> product_data.trends[k].sales_value,
                 search_value |-> product_data.trends[k].search_value]],
         regions |-> d.regions \o
            [k \in 1..Len(product_data.regions) |->
                [product_id |-> id, country |-> product_data.regions[k].country,
                 percentage |-> product_data.regions[k].percentage]],
         videos |-> d.videos \o
            [k \in 1..Len(product_data.videos) |->
                [product_id |-> id, title |-> product_data.videos[k].title,
                 platform |-> product_data.videos[k].platform,
                 views |-> product_data.videos[k].views,
                 video_url |-> product_data.videos[k].video_url]]]

\* FoundAfter with the increment outside the else branch: every candidate counts
FoundAfter_always(total_found, existing_product) == total_found + 1

\* self.total_found after one candidate: "Increment counter - only count new
\* products" (existing_product is NoRow on the insert path)
FoundAfter(total_found, existing_product) ==
    IF existing_product = NoRow THEN total_found + 1 ELSE total_found

RECURSIVE SaveProducts(_, _, _)
\* _save_products(products) run with no other task between its steps: the
\* database and self.total_found after it.  first() is the row of least id.
SaveProducts(d, total_found, products) ==
    IF products = <<>>
    THEN [db |-> d, total_found |-> total_found]
    ELSE LET product_data == Head(products)
             found == ExistingProducts(d, product_data)
             existing_product ==
                 IF found = {} THEN NoRow
                 ELSE d.products[CHOOSE k \in found : \A x \in found : k <= x]
         IN  SaveProducts(
                 IF existing_product = NoRow
                 THEN SaveNew(d, product_data)
                 ELSE SaveExisting(d, existing_product, product_data),
                 FoundAfter(total_found, existing_product),
                 Tail(products))

(***************************************************************************)
(* The status register and the tasks.                                      *)
(***************************************************************************)
\* the module globals as the import leaves them
InitStatus ==
    [SCRAPER_RUNNING |-> FALSE,
     SCRAPER_PROGRESS |-> 0,
     SCRAPER_TOTAL_STEPS |-> 100,
     SCRAPER_FOUND_COUNT |-> 0,
     SCRAPER_ERROR |-> None,
     SCRAPER_LAST_RUN |-> None,
     SCRAPER_NEXT_RUN |-> None,
     SCHEDULER_ACTIVE |-> FALSE,
     SCHEDULER_TASK |-> None]

\* GET /scraper/status reads the register and counts the Products; it changes
\* nothing, so it is the function of the state that a poll returns
get_scraper_status ==
    [running |-> status.SCRAPER_RUNNING,
     progress |-> status.SCRAPER_PROGRESS,
     total_found |-> status.SCRAPER_FOUND_COUNT,
     total_products |-> ProductCount(db),
     error |-> status.SCRAPER_ERROR,
     last_run |-> status.SCRAPER_LAST_RUN,
     next_run |-> status.SCRAPER_NEXT_RUN,
     scheduler_active |-> status.SCHEDULER_ACTIVE]

\* update_progress scaled to 1000 instead of 100
update_progress_per_mille(st, current, total, found) ==
    [st EXCEPT !.SCRAPER_PROGRESS = (current * 1000) \div total,
               !.SCRAPER_TOTAL_STEPS = total,
               !.SCRAPER_FOUND_COUNT = found]

\* int((current / total) * 100), and the other two assignments of update_progress
update_progress(st, current, total, found) ==
    [st EXCEPT !.SCRAPER_PROGRESS = (current * 100) \div total,
               !.SCRAPER_TOTAL_STEPS = total,
               !.SCRAPER_FOUND_COUNT = found]

\* total_steps = len(categories) * len(platforms)
total_steps == Len(categories) * Len(platforms)

\* current_progress from the inner index alone
current_progress_inner(i, j) == j

\* current_progress = i * len(platforms) + j
current_progress(i, j) == i * Len(platforms) + j

\* no call of the progress callback yet
NoCall == [current |-> 0, total |-> 0, found |-> 0]

\* the record of a pass at the call of run_scraper_task(count, db).
\* origin is "start" (a background task of POST /scraper/start) or "scheduler"
\* (awaited by check_and_start_scraper_if_needed in loop `loop`).  These fields
\* record what happened and are read by no step: forced (the request had
\* force=true), steps (the (current, total) of every callback call), last (the
\* last callback call) and inserted (the ids of the Product rows the pass added).
NewPass(pc, origin, loop, count, forced) ==
    [pc |-> pc, origin |-> origin, loop |-> loop, count |-> count,
     i |-> 0, j |-> 0, total_found |-> 0, products |-> <<>>, existing |-> NoRow,
     forced |-> forced, steps |-> <<>>, last |-> NoCall,
     inserted |-> {}]

InFlight(ps) == ps.pc \in {"queued", "search", "lookup", "write"}
Executing(ps) == ps.pc \in {"search", "lookup", "write"}
PassesInFlight == { p \in 1..Len(passes) : InFlight(passes[p]) }

\* the agent's progress callback: progress_callback(current, total, self.total_found)
\* S is the triple of status, passes and loops that the steps of a task thread through
Callback(S, p, current, total) ==
    [S EXCEPT
        !.status = update_progress(@, current, total, S.passes[p].total_found),
        !.passes[p].steps = Append(@, [current |-> current, total |-> total]),
        !.passes[p].last = [current |-> current, total |-> total,
                            found |-> S.passes[p].total_found]]

(***************************************************************************)
(* start_scheduler: the minute loop and the loop head.                     *)
(***************************************************************************)
\* f"In about {minutes_left} minute{'s' if minutes_left != 1 else ''}"
NextRunText(minutes_left) ==
    "In about " \o ToString(minutes_left) \o
        (IF minutes_left # 1 THEN " minutes" ELSE " minute")

\* LoopStop that goes back to sleep
LoopStop_sleeps(S, l) == [S EXCEPT !.loops[l].pc = "sleep", !.loops[l].pass = 0]

\* the loop leaves "while SCHEDULER_ACTIVE" and returns
LoopStop(S, l) == [S EXCEPT !.loops[l].pc = "stopped", !.loops[l].pass = 0]

\* MinuteEnter that publishes the next run without testing the flag
MinuteEnter_unchecked(S, l, m) ==
    [S EXCEPT !.status.SCRAPER_NEXT_RUN = NextRunText(MinutesPerCycle - m),
              !.loops[l] = [@ EXCEPT !.pc = "sleep", !.minute = m, !.pass = 0]]

\* the body of "for minute in range(60)" at minute m, up to asyncio.sleep(60);
\* a cleared flag breaks out, and the loop head, reached with no suspension
\* in between, then ends the loop
MinuteEnter(S, l, m) ==
    IF ~S.status.SCHEDULER_ACTIVE
    THEN LoopStop(S, l)
    ELSE [S EXCEPT !.status.SCRAPER_NEXT_RUN = NextRunText(MinutesPerCycle - m),
                   !.loops[l] = [@ EXCEPT !.pc = "sleep", !.minute = m, !.pass = 0]]

\* the scheduler loop resumes after the pass it awaited has returned
ResumeLoop(S, p) ==
    IF S.passes[p].origin = "scheduler"
    THEN MinuteEnter(S, S.passes[p].loop, 0)
    ELSE S

(***************************************************************************)
(* run_scraper_task and TdScraper.search_trending_products.                *)
(***************************************************************************)
\* run_scraper_task from its call to the first suspension of the pass:
\* total_found = 0, the callback of unit (0, 0), then _search_platform
BeginPass(S, p) ==
    LET S1 == [S EXCEPT !.passes[p].pc = "search", !.passes[p].total_found = 0]
    IN  Callback(S1, p, current_progress(0, 0), total_steps)

\* FinalCallback reporting the index of the last unit
FinalCallback_last_unit(S, p) == Callback(S, p, total_steps - 1, total_steps)

\* the final progress update of search_trending_products: progress_callback(1, 1, found)
FinalCallback(S, p) == Callback(S, p, 1, 1)

\* after the loops: the final callback and the return, then run_scraper_task's
\* "Update global status" and its finally
CompletePass(S, p) ==
    LET S1 == FinalCallback(S, p)
        S2 == [S1 EXCEPT
                 !.status.SCRAPER_FOUND_COUNT = S1.passes[p].total_found,
                 !.status.SCRAPER_PROGRESS = 100,
                 !.status.SCRAPER_LAST_RUN = "func.now()",
                 !.status.SCRAPER_RUNNING = FALSE,
                 !.passes[p].pc = "done",
                 !.passes[p].products = <<>>,
                 !.passes[p].existing = NoRow]
    IN  ResumeLoop(S2, p)

\* FailPass that records the time of the run as a completed pass does
FailPass_records_run(S, p, e) ==
    LET S1 == [S EXCEPT
                 !.status.SCRAPER_ERROR = e,
                 !.status.SCRAPER_LAST_RUN = "func.now()",
                 !.status.SCRAPER_RUNNING = FALSE,
                 !.passes[p].pc = "failed",
                 !.passes[p].products = <<>>,
                 !.passes[p].existing = NoRow]
    IN  ResumeLoop(S1, p)

\* FailPass whose exception goes on into the scheduler loop and ends it
FailPass_propagates(S, p, e) ==
    LET S1 == [S EXCEPT
                 !.status.SCRAPER_ERROR = e,
                 !.status.SCRAPER_RUNNING = FALSE,
                 !.passes[p].pc = "failed",
                 !.passes[p].products = <<>>,
                 !.passes[p].existing = NoRow]
    IN  IF S.passes[p].origin = "scheduler"
        THEN LoopStop(S1, S.passes[p].loop)
        ELSE S1

\* an exception leaves the pass: run_scraper_task's except and finally
FailPass(S, p, e) ==
    LET S1 == [S EXCEPT
                 !.status.SCRAPER_ERROR = e,
                 !.status.SCRAPER_RUNNING = FALSE,
                 !.passes[p].pc = "failed",
                 !.passes[p].products = <<>>,
                 !.passes[p].existing = NoRow]
    IN  ResumeLoop(S1, p)

\* "if self.total_found >= count: break", in the inner and in the outer loop
TargetReached(ps) == ps.total_found >= ps.count

\* whether the loops have another (category, platform) unit after (i, j)
HasNextUnit(ps) ==
    /\ ~TargetReached(ps)
    /\ \/ ps.j + 1 < Len(platforms)
       \/ ps.i + 1 < Len(categories)

\* after _save_products returned for unit (i, j): the two target checks, then
\* the next unit's callback and search, or the end of the pass
AfterUnit(S, p) ==
    LET ps == S.passes[p]
        ni == IF ps.j + 1 < Len(platforms) THEN ps.i ELSE ps.i + 1
        nj == IF ps.j + 1 < Len(platforms) THEN ps.j + 1 ELSE 0
    IN  IF HasNextUnit(ps)
        THEN Callback([S EXCEPT !.passes[p].pc = "search", !.passes[p].i = ni,
                                !.passes[p].j = nj, !.passes[p].products = <<>>,
                                !.passes[p].existing = NoRow],
                      p, current_progress(ni, nj), total_steps)
        ELSE CompletePass(S, p)

\* "for product_data in products": on to the next candidate's query, or out of
\* _save_products
NextCandidate(S, p) ==
    IF Len(S.passes[p].products) > 1
    THEN [S EXCEPT !.passes[p].pc = "lookup", !.passes[p].products = Tail(@),
                   !.passes[p].existing = NoRow]
    ELSE AfterUnit(S, p)

\* what response holds after a step that is not a request
NoResponse == [status |-> None, message |-> None]

S0 == [status |-> status, passes |-> passes, loops |-> loops]

Apply(S) ==
    \E T \in {S} :
        /\ status' = T.status
        /\ passes' = T.passes
        /\ loops' = T.loops

(***************************************************************************)
(* The steps of a pass.                                                    *)
(***************************************************************************)
\* the background task of POST /scraper/start begins
PassStart(p) ==
    /\ passes[p].pc = "queued"
    /\ Apply(BeginPass(S0, p))
    /\ response' = NoResponse /\ UNCHANGED <<db, startup>>

\* max_products divided by the platforms alone
max_products_per_platform(count) == count \div Len(platforms)

\* max_products that is never below one
max_products_at_least_one(count) ==
    Max(1, (count \div Len(platforms)) \div Len(categories))

\* max_products=count//len(platforms)//len(categories)
max_products(count) == (count \div Len(platforms)) \div Len(categories)

\* _search_platform returns: random.randint(1, max_products) mock products, or
\* the ValueError of an empty range, which ends the pass
PassSearch(p, draws) ==
    /\ passes[p].pc = "search"
    /\ LET ps == passes[p]
           found == MockProducts(platforms[ps.j + 1], categories[ps.i + 1], draws)
       IN  \/ /\ max_products(ps.count) < 1
              /\ Apply(FailPass(S0, p, "empty range for randrange()"))
           \/ \E n \in 1..max_products(ps.count) :
                \E products \in [1..n -> found] :
                   Apply([S0 EXCEPT !.passes[p].pc = "lookup",
                                    !.passes[p].products = products])
    /\ response' = NoResponse /\ UNCHANGED <<db, startup>>

\* the query by (name, category) of the first candidate left returns; with no
\* row, or a row that has updates, the writes follow; a row without updates is
\* skipped with no write
PassLookup(p) ==
    /\ passes[p].pc = "lookup"
    /\ LET product_data == Head(passes[p].products)
           found == ExistingProducts(db, product_data)
       IN  \/ /\ found = {}
              /\ Apply([S0 EXCEPT !.passes[p].pc = "write",
                                  !.passes[p].existing = NoRow])
           \/ \E k \in found :
                IF HasUpdates(db.products[k], product_data)
                THEN Apply([S0 EXCEPT !.passes[p].pc = "write",
                                      !.passes[p].existing = db.products[k]])
                ELSE Apply(NextCandidate(S0, p))
    /\ response' = NoResponse /\ UNCHANGED <<db, startup>>

\* PassWrite that writes nothing when the lookup found no row and a Product
\* with the candidate's (name, category) is stored by the time of the write
PassWrite_unique(p) ==
    /\ passes[p].pc = "write"
    /\ LET ps == passes[p]
           product_data == Head(ps.products)
           saved == IF ps.existing = NoRow
                    THEN IF ExistingProducts(db, product_data) = {}
                         THEN SaveNew(db, product_data)
                         ELSE db
                    ELSE SaveExisting(db, ps.existing, product_data)
           S1 == [S0 EXCEPT
                    !.passes[p].total_found = FoundAfter(@, ps.existing),
                    !.passes[p].inserted =
                        @ \cup (Len(db.products) + 1 .. Len(saved.products))]
       IN  /\ db' = saved
           /\ Apply(NextCandidate(S1, p))
    /\ response' = NoResponse /\ UNCHANGED startup

\* the writes of one candidate, committed: the update of the loaded row, or the
\* new Product with its children and the increment of total_found
PassWrite(p) ==
    /\ passes[p].pc = "write"
    /\ LET ps == passes[p]
           product_data == Head(ps.products)
           saved == IF ps.existing = NoRow
                    THEN SaveNew(db, product_data)
                    ELSE SaveExisting(db, ps.existing, product_data)
           S1 == [S0 EXCEPT
                    !.passes[p].total_found = FoundAfter(@, ps.existing),
                    !.passes[p].inserted =
                        @ \cup (Len(db.products) + 1 .. Len(saved.products))]
       IN  /\ db' = saved
           /\ Apply(NextCandidate(S1, p))
    /\ response' = NoResponse /\ UNCHANGED startup

\* PassDbError that also removes the Product rows the pass had added
PassDbError_rolls_back(p) ==
    /\ passes[p].pc \in {"lookup", "write"}
    /\ Apply(FailPass(S0, p, "db error"))
    /\ db' = [db EXCEPT !.products =
                 [k \in 1..Len(@) |-> IF k \in passes[p].inserted
                                      THEN [@[k] EXCEPT !.name = None]
                                      ELSE @[k]]]
    /\ response' = NoResponse /\ UNCHANGED startup

\* a database call of the pass raises (the store is unreachable): nothing of the
\* candidate is committed and the exception ends the pass
PassDbError(p) ==
    /\ passes[p].pc \in {"lookup", "write"}
    /\ Apply(FailPass(S0, p, "db error"))
    /\ response' = NoResponse /\ UNCHANGED <<db, startup>>

(***************************************************************************)
(* The scheduler: check_and_start_scraper_if_needed and start_scheduler.   *)
(***************************************************************************)
\* SkipIfRunning without the test of the flag
SkipIfRunning_never(st) == FALSE

\* "Skip if scraper is already running": if SCRAPER_RUNNING: return
SkipIfRunning(st) == st.SCRAPER_RUNNING

\* the count query of check_and_start_scraper_if_needed is executed for loop l.
\* The field turn of the loop's record changes at every such query and is read
\* by no step
Counted(S, l) == [S EXCEPT !.loops[l].turn = ~@]

\* BelowThreshold without the test of the count
BelowThreshold_always(product_count) == TRUE

\* "if product_count < MAX_PRODUCTS"
BelowThreshold(product_count) == product_count < MAX_PRODUCTS

\* check_and_start_scraper_if_needed(db) as loop l awaits it, up to its return
\* or to the first suspension of the pass it awaits; query is "ok" or "error",
\* the outcome of the count query
check_and_start_scraper_if_needed(S, l, query) ==
    IF SkipIfRunning(S.status)
    THEN MinuteEnter(S, l, 0)
    ELSE IF query = "error"
    THEN MinuteEnter([Counted(S, l) EXCEPT !.status.SCRAPER_ERROR = "db error"], l, 0)
    ELSE IF BelowThreshold(ProductCount(db))
    THEN LET p == Len(S.passes) + 1
             S1 == [Counted(S, l) EXCEPT
                      !.status.SCRAPER_ERROR = None,
                      !.status.SCRAPER_RUNNING = TRUE,
                      !.passes = Append(@, NewPass("queued", "scheduler", l,
                                                   MAX_PRODUCTS, FALSE)),
                      !.loops[l].pc = "pass",
                      !.loops[l].minute = 0,
                      !.loops[l].pass = p]
         IN  BeginPass(S1, p)
    ELSE MinuteEnter(Counted(S, l), l, 0)

\* WhileHead that begins an iteration without the test of the flag
WhileHead_unchecked(S, l, query) == check_and_start_scraper_if_needed(S, l, query)

\* the head of "while SCHEDULER_ACTIVE" and the iteration it begins
WhileHead(S, l, query) ==
    IF ~S.status.SCHEDULER_ACTIVE
    THEN LoopStop(S, l)
    ELSE check_and_start_scraper_if_needed(S, l, query)

\* a step of the loop is possible when the pass it would start is within the bound
WithinPasses(S) == Len(S.passes) > Len(passes) => Len(passes) < MaxPasses

\* the outcomes of the count query of check_and_start_scraper_if_needed: it
\* returns the count, or it raises
QueryOutcomes == {"ok", "error"}

\* the background task of POST /scraper/schedule begins start_scheduler
LoopStart(l, query) ==
    /\ loops[l].pc = "queued"
    /\ WithinPasses(WhileHead(S0, l, query))
    /\ Apply(WhileHead(S0, l, query))
    /\ response' = NoResponse /\ UNCHANGED <<db, startup>>

\* asyncio.sleep(60) returns: the next minute, or after the last one the loop head
LoopWake(l, query) ==
    /\ loops[l].pc = "sleep"
    /\ IF loops[l].minute + 1 < MinutesPerCycle
       THEN Apply(MinuteEnter(S0, l, loops[l].minute + 1))
       ELSE /\ WithinPasses(WhileHead(S0, l, query))
            /\ Apply(WhileHead(S0, l, query))
    /\ response' = NoResponse /\ UNCHANGED <<db, startup>>

(***************************************************************************)
(* The requests.                                                           *)
(***************************************************************************)
\* the count values of POST /scraper/start; 0 is also the absent count (None)
StartCounts == {0, 2}

\* count or MAX_PRODUCTS
CountOrMax(count) == IF count = 0 THEN MAX_PRODUCTS ELSE count

\* AlreadyRunning without the test of the flag
AlreadyRunning_never(st, force) == FALSE

\* AlreadyRunning without the test of force
AlreadyRunning_ignore_force(st, force) == st.SCRAPER_RUNNING

\* "if SCRAPER_RUNNING and not force"
AlreadyRunning(st, force) == st.SCRAPER_RUNNING /\ ~force

\* POST /scraper/start
start_scraper(count, force) ==
    /\ startup = "complete"
    /\ IF AlreadyRunning(status, force)
       THEN /\ response' = [status |-> "error",
                            message |-> "Scraper is already running",
                            running |-> TRUE,
                            progress |-> status.SCRAPER_PROGRESS,
                            total_found |-> status.SCRAPER_FOUND_COUNT]
            /\ UNCHANGED <<status, passes>>
       ELSE /\ Len(passes) < MaxPasses
            /\ status' = [status EXCEPT !.SCRAPER_ERROR = None,
                                        !.SCRAPER_RUNNING = TRUE]
            /\ passes' = Append(passes, NewPass("queued", "start", 0,
                                                CountOrMax(count), force))
            /\ response' = [status |-> "success",
                            message |-> "Scraper started",
                            running |-> TRUE,
                            progress |-> 0,
                            total_found |-> 0]
    /\ UNCHANGED <<db, loops, startup>>

\* stop_scraper that clears the running flag
stop_scraper_clears_flag ==
    /\ startup = "complete"
    /\ response' = [status |-> "error",
                    message |-> "Stopping scraper jobs not implemented yet"]
    /\ status' = [status EXCEPT !.SCRAPER_RUNNING = FALSE]
    /\ UNCHANGED <<db, passes, loops, startup>>

\* POST /scraper/stop
stop_scraper ==
    /\ startup = "complete"
    /\ response' = [status |-> "error",
                    message |-> "Stopping scraper jobs not implemented yet"]
    /\ UNCHANGED <<status, db, passes, loops, startup>>

\* POST /scraper/schedule; SCHEDULER_TASK is never assigned, so the cancel of
\* the deactivation never runs
schedule_scraper(active) ==
    /\ startup = "complete"
    /\ IF active
       THEN IF ~status.SCHEDULER_ACTIVE
            THEN /\ status' = [status EXCEPT
                                 !.SCHEDULER_ACTIVE = TRUE,
                                 !.SCRAPER_NEXT_RUN = "In about 1 hour"]
                 /\ loops' = Append(loops, [pc |-> "queued", minute |-> 0, pass |-> 0,
                                            turn |-> FALSE])
                 /\ response' = [status |-> "success",
                                 message |-> "Scheduler activated, scraper will run every hour",
                                 active |-> TRUE]
            ELSE /\ response' = [status |-> "info",
                                 message |-> "Scheduler is already active",
                                 active |-> TRUE]
                 /\ UNCHANGED <<status, loops>>
       ELSE /\ status' = [status EXCEPT
                            !.SCHEDULER_ACTIVE = FALSE,
                            !.SCRAPER_NEXT_RUN = None]
            /\ response' = [status |-> "success",
                            message |-> "Scheduler deactivated",
                            active |-> FALSE]
            /\ UNCHANGED loops
    /\ UNCHANGED <<db, passes, startup>>

\* a schedule request is possible when the loop it would spawn is within bound n
LoopsWithin(active, n) ==
    (active /\ ~status.SCHEDULER_ACTIVE) => Len(loops) < n

\* startup_event of main.py: init_db(), then start_background_tasks is added to
\* a BackgroundTasks object that the function drops when it returns, so
\* start_background_tasks is never called
startup_event ==
    /\ startup = "starting"
    /\ startup' = "complete"
    /\ response' = NoResponse /\ UNCHANGED <<status, db, passes, loops>>

(***************************************************************************)
(* The server.                                                             *)
(***************************************************************************)
Init ==
    /\ status = InitStatus
    /\ db = EmptyDb
    /\ passes = <<>>
    /\ loops = <<>>
    /\ response = NoResponse
    /\ startup = "starting"

Next ==
    \/ startup_event
    \/ \E count \in StartCounts, force \in BOOLEAN : start_scraper(count, force)
    \/ stop_scraper
    \/ \E active \in BOOLEAN :
          LoopsWithin(active, MaxLoops) /\ schedule_scraper(active)
    \/ \E p \in 1..Len(passes) : PassStart(p)
    \/ \E p \in 1..Len(passes) : PassSearch(p, ServerDraws)
    \/ \E p \in 1..Len(passes) : PassLookup(p)
    \/ \E p \in 1..Len(passes) : PassWrite(p)
    \/ \E p \in 1..Len(passes) : PassDbError(p)
    \/ \E l \in 1..Len(loops), query \in QueryOutcomes : LoopStart(l, query)
    \/ \E l \in 1..Len(loops), query \in QueryOutcomes : LoopWake(l, query)

\* the whole server
Spec == Init /\ [][Next]_vars

NextPasses ==
    \/ startup_event
    \/ \E count \in StartCounts : start_scraper(count, FALSE)
    \/ \E p \in 1..Len(passes) : PassStart(p)
    \/ \E p \in 1..Len(passes) : PassSearch(p, PassDraws)
    \/ \E p \in 1..Len(passes) : PassLookup(p)
    \/ \E p \in 1..Len(passes) : PassWrite(p)
    \/ \E p \in 1..Len(passes) : PassDbError(p)

\* the start requests without force and their passes, with more values to draw from
SpecPasses == Init /\ [][NextPasses]_vars

(***************************************************************************)
(* _save_products called directly on one TdScraper, one call after the     *)
(* other, with candidates drawn from SaveDraws.                            *)
(***************************************************************************)
InitUpsert ==
    /\ status = InitStatus
    /\ db = EmptyDb
    /\ passes = <<NewPass("direct", "direct", 0, 0, FALSE)>>
    /\ loops = <<>>
    /\ response = NoResponse
    /\ startup = "complete"

\* the row that the query of _save_products loads for product_data
LoadedRow(d, product_data) ==
    LET found == ExistingProducts(d, product_data)
    IN  IF found = {} THEN NoRow
        ELSE d.products[CHOOSE k \in found : \A x \in found : k <= x]

\* await scraper._save_products(products); the record keeps the call's
\* argument and the row loaded for its last candidate
save_products(products) ==
    /\ passes[1].pc = "direct"
    /\ \E r \in {SaveProducts(db, passes[1].total_found, products)} :
           /\ db' = r.db
           /\ passes' = [passes EXCEPT
                           ![1].total_found = r.total_found,
                           ![1].products = products,
                           ![1].existing = LoadedRow(db, products[Len(products)]),
                           ![1].inserted = @ \cup (Len(db.products) + 1 .. Len(r.db.products))]
    /\ response' = NoResponse
    /\ UNCHANGED <<status, loops, startup>>

\* the candidates of the direct calls
SaveCandidates == MockProducts(platforms[1], categories[1], SaveDraws)

NextUpsert ==
    \E product_data \in SaveCandidates : save_products(<<product_data>>)

SpecUpsert == InitUpsert /\ [][NextUpsert]_vars

(***************************************************************************)
(* _save_products called directly with batches of up to MaxBatch           *)
(* candidates, which may repeat a (name, category) and a video_url.        *)
(***************************************************************************)
BatchDraws ==
    [subs |-> 2,
     trend_score |-> {50, 60},
     engagement_rate |-> {20},
     sales_velocity |-> {10},
     search_volume |-> {30},
     geographic_spread |-> {20},
     prices |-> {<<1000, 1200>>},
     dates |-> {1},
     videos |-> {<<1, 1>>},
     regions |-> MockRegions(<<50, 30, 20>>) \cup MockRegions(<<20, 30, 50>>)]

BatchCandidates == MockProducts(platforms[1], categories[1], BatchDraws)

NextBatches ==
    \E n \in 1..MaxBatch :
        \E products \in [1..n -> BatchCandidates] : save_products(products)

SpecBatches == InitUpsert /\ [][NextBatches]_vars

(***************************************************************************)
(* The scheduler with the start requests that do not force, under the      *)
(* fairness of the event loop: a task that can take its next step takes    *)
(* it (asyncio.sleep returns, a database call returns, a background task   *)
(* is begun).  The requests are under no fairness.                         *)
(***************************************************************************)
\* the draws of a pass in these behaviours: two product names per category,
\* so that one pass can store MAX_PRODUCTS Products
SchedulerDraws ==
    [subs |-> 2,
     trend_score |-> {50},
     engagement_rate |-> {20},
     sales_velocity |-> {10},
     search_volume |-> {30},
     geographic_spread |-> {20},
     prices |-> {<<1000, 1200>>},
     dates |-> {1},
     videos |-> {<<>>},
     regions |-> MockRegions(<<50, 30, 20>>)]

NextScheduler ==
    \/ startup_event
    \/ \E count \in StartCounts : start_scraper(count, FALSE)
    \/ \E active \in BOOLEAN :
          LoopsWithin(active, MaxLoops) /\ schedule_scraper(active)
    \/ \E p \in 1..Len(passes) : PassStart(p)
    \/ \E p \in 1..Len(passes) : PassSearch(p, SchedulerDraws)
    \/ \E p \in 1..Len(passes) : PassLookup(p)
    \/ \E p \in 1..Len(passes) : PassWrite(p)
    \/ \E p \in 1..Len(passes) : PassDbError(p)
    \/ \E l \in 1..Len(loops), query \in QueryOutcomes : LoopStart(l, query)
    \/ \E l \in 1..Len(loops), query \in QueryOutcomes : LoopWake(l, query)

\* the tasks keep being run
TaskFairness ==
    /\ \A p \in 1..MaxPasses :
          /\ WF_vars(p <= Len(passes) /\ PassStart(p))
          /\ WF_vars(p <= Len(passes) /\ PassSearch(p, SchedulerDraws))
          /\ WF_vars(p <= Len(passes) /\ PassLookup(p))
          /\ WF_vars(p <= Len(passes) /\ PassWrite(p))
    /\ \A l \in 1..MaxLoops :
          /\ WF_vars(l <= Len(loops) /\ \E query \in QueryOutcomes : LoopStart(l, query))
          /\ WF_vars(l <= Len(loops) /\ \E query \in QueryOutcomes : LoopWake(l, query))

SpecScheduler == Init /\ [][NextScheduler]_vars /\ TaskFairness

(***************************************************************************)
(* The scheduler alone, with room for a second start_scheduler task: the   *)
(* schedule requests, the loops and the passes the loops start.            *)
(***************************************************************************)
NextLoops ==
    \/ startup_event
    \/ \E active \in BOOLEAN :
          LoopsWithin(active, MaxRespawnedLoops) /\ schedule_scraper(active)
    \/ \E p \in 1..Len(passes) : PassSearch(p, SchedulerDraws)
    \/ \E p \in 1..Len(passes) : PassLookup(p)
    \/ \E p \in 1..Len(passes) : PassWrite(p)
    \/ \E p \in 1..Len(passes) : PassDbError(p)
    \/ \E l \in 1..Len(loops), query \in QueryOutcomes : LoopStart(l, query)
    \/ \E l \in 1..Len(loops), query \in QueryOutcomes : LoopWake(l, query)

SpecLoops == Init /\ [][NextLoops]_vars

(***************************************************************************)
(* _generate_mock_product with the draws of _generate_mock_regions, saved  *)
(* by direct _save_products calls.                                         *)
(***************************************************************************)
\* the percentages the list comprehension draws, random.randint(5, 100) each:
\* the lists of 3 to 6 draws that begin with up to two draws of 5 and go on
\* with draws of 100
RegionPercentages ==
    { [k \in 1..n |-> IF k <= m THEN 5 ELSE 100] : n \in 3..6, m \in 0..2 }

\* the draws of the direct calls that store generated allocations
RegionDraws ==
    [subs |-> 2,
     trend_score |-> {50},
     engagement_rate |-> {20},
     sales_velocity |-> {10},
     search_volume |-> {30},
     geographic_spread |-> {20},
     prices |-> {<<1000, 1200>>},
     dates |-> {1},
     videos |-> {<<>>},
     regions |-> UNION { MockRegions(percentages) : percentages \in RegionPercentages }]

RegionCandidates == MockProducts(platforms[1], categories[1], RegionDraws)

\* the direct calls whose candidate matches no stored Product (the branch that
\* stores Region rows)
NextRegions ==
    /\ Len(db.products) < MaxRegionProducts
    /\ \E product_data \in RegionCandidates :
          /\ ExistingProducts(db, product_data) = {}
          /\ save_products(<<product_data>>)

SpecRegions == InitUpsert /\ [][NextRegions]_vars

(***************************************************************************)
(* Deletion of a Product.  No route deletes; the models declare what the   *)
(* deletion of a Product row does to its children: the relationships of    *)
(* Product have cascade="all, delete-orphan" and the product_id columns     *)
(* are foreign keys with ondelete="CASCADE".                               *)
(***************************************************************************)
\* the rows of a child table that Product id does not own
NotOwned(rows, id) ==
    LET other(r) == r.product_id # id
    IN  SelectSeq(rows, other)

\* DeleteCascade that deletes the Product row alone
DeleteCascade_none(d, id) ==
    [d EXCEPT !.products[id] = [@ EXCEPT !.name = None, !.category = None]]

\* the store after the deletion of Product id and its commit
DeleteCascade(d, id) ==
    [products |-> [d.products EXCEPT ![id] = [@ EXCEPT !.name = None, !.category = None]],
     trends |-> NotOwned(d.trends, id),
     regions |-> NotOwned(d.regions, id),
     videos |-> NotOwned(d.videos, id)]

\* db.delete(product); db.commit()
DeleteProduct(id) ==
    /\ passes[1].pc = "direct"
    /\ id \in ProductIds(db)
    /\ db' = DeleteCascade(db, id)
    /\ UNCHANGED <<status, passes, loops, response, startup>>

\* the draws of the direct calls in the behaviours that delete
DeleteDraws ==
    [subs |-> 1,
     trend_score |-> {50, 60},
     engagement_rate |-> {20},
     sales_velocity |-> {10},
     search_volume |-> {30},
     geographic_spread |-> {20},
     prices |-> {<<1000, 1200>>},
     dates |-> {1, 2},
     videos |-> {<<>>, <<1>>},
     regions |-> MockRegions(<<50, 30, 20>>)]

DeleteCandidates ==
    MockProducts(platforms[1], categories[1], DeleteDraws)
        \cup MockProducts(platforms[1], categories[2], DeleteDraws)

NextDelete ==
    \/ \E product_data \in DeleteCandidates :
          /\ ExistingProducts(db, product_data) = {} => Len(db.products) < MaxProductIds
          /\ save_products(<<product_data>>)
    \/ \E id \in 1..Len(db.products) : DeleteProduct(id)

SpecDelete == InitUpsert /\ [][NextDelete]_vars

(***************************************************************************)
(* GET /products/ of product_routes.py, on a store filled by direct        *)
(* _save_products calls.  The query is built as the source builds it: the  *)
(* filters, the join with table regions when a region is given, count(),   *)
(* ORDER BY, OFFSET and LIMIT on the rows of the statement, and all(),     *)
(* which returns each Product entity once.  Rows with equal sort keys come *)
(* in any order.                                                           *)
(***************************************************************************)
\* the keys of valid_sort_fields
valid_sort_fields ==
    {"trend_score", "created_at", "name", "category", "engagement_rate",
     "sales_velocity", "search_volume"}

\* the place of a string of the catalog in the order of the strings
Collate(s) ==
    CASE s = "Appliances Kitchen Gadgets" -> 1
      [] s = "Lighting Home Decor" -> 2
      [] s = "Utensils Kitchen Gadgets" -> 3
      [] s = "Wall Art Home Decor" -> 4
      [] s = "home_decor" -> 1
      [] s = "kitchen_gadgets" -> 2

\* the value of column sort_field of Product row p; created_at grows with the id
SortValue(p, sort_field) ==
    CASE sort_field = "trend_score" -> p.trend_score
      [] sort_field = "created_at" -> p.id
      [] sort_field = "name" -> Collate(p.name)
      [] sort_field = "category" -> Collate(p.category)
      [] sort_field = "engagement_rate" -> p.engagement_rate
      [] sort_field = "sales_velocity" -> p.sales_velocity
      [] sort_field = "search_volume" -> p.search_volume

\* "if sort_by not in valid_sort_fields: sort_by = 'trend_score'"
SortField(sort_by) ==
    IF sort_by \notin valid_sort_fields THEN "trend_score" ELSE sort_by

\* sort_order.lower()
Lower(s) ==
    CASE s = "ASC" -> "asc"
      [] s = "DESC" -> "desc"
      [] OTHER -> s

\* 'if sort_order.lower() == "asc"': asc(sort_field), else desc(sort_field)
Ascending(sort_order) == Lower(sort_order) = "asc"

\* the Region rows of Product id
RegionsOf(d, id) == { r \in 1..Len(d.regions) : d.regions[r].product_id = id }

\* the Products the filters keep; category None and trend_score 0 are the
\* absent (or falsy) parameters
Filtered(d, category, trend_score, region) ==
    { k \in ProductIds(d) :
        /\ category # None => d.products[k].category = category
        /\ trend_score # 0 => d.products[k].trend_score >= trend_score
        /\ region # None
              => \E r \in RegionsOf(d, k) : d.regions[r].country = region }

\* the rows of the statement, as pairs of a Product id and the joined Region
\* row (0 without join): query.join(Product.regions) yields one row per Region
\* row of each Product kept
QueryRows(d, category, trend_score, region) ==
    IF region # None
    THEN { <<k, r>> : k \in Filtered(d, category, trend_score, region),
                      r \in 1..Len(d.regions) } \cap
         { <<d.regions[r].product_id, r>> : r \in 1..Len(d.regions) }
    ELSE { <<k, 0>> : k \in Filtered(d, category, trend_score, region) }

\* the rows that may come first under ORDER BY
FirstRows(d, rows, sort_field, ascending) ==
    { x \in rows : \A y \in rows :
        IF ascending
        THEN SortValue(d.products[x[1]], sort_field) <= SortValue(d.products[y[1]], sort_field)
        ELSE SortValue(d.products[x[1]], sort_field) >= SortValue(d.products[y[1]], sort_field) }

\* every order in which the statement may return rows under ORDER BY
RECURSIVE Ordered(_, _, _, _)
Ordered(d, rows, sort_field, ascending) ==
    IF rows = {} THEN {<<>>}
    ELSE UNION { { <<x>> \o rest :
                      rest \in Ordered(d, rows \ {x}, sort_field, ascending) } :
                 x \in FirstRows(d, rows, sort_field, ascending) }

\* query.offset(offset).limit(limit)
OffsetLimit(rows, offset, limit) ==
    IF offset >= Len(rows) THEN <<>>
    ELSE SubSeq(rows, offset + 1,
                IF offset + limit <= Len(rows) THEN offset + limit ELSE Len(rows))

\* query.all() on one entity: each Product once, in the order of its first row
RECURSIVE Entities(_)
Entities(rows) ==
    IF rows = <<>> THEN <<>>
    ELSE LET before == Entities(SubSeq(rows, 1, Len(rows) - 1))
             id == rows[Len(rows)][1]
         IN  IF \E k \in 1..Len(before) : before[k] = id
             THEN before ELSE Append(before, id)

\* format_product, on the columns the rows of the model hold
format_product(product) ==
    [id |-> product.id, name |-> product.name, category |-> product.category,
     trend_score |-> product.trend_score,
     engagement_rate |-> product.engagement_rate]

\* "pages": (total_count + limit - 1) // limit
Pages(total_count, limit) == (total_count + limit - 1) \div limit

\* GET /products/; the response keeps the query parameters of the request
get_products(page, limit, category, trend_score, region, sort_by, sort_order) ==
    /\ LET offset == (page - 1) * limit
           rows == QueryRows(db, category, trend_score, region)
           total_count == Cardinality(rows)
           sorted == Ordered(db, rows, SortField(sort_by), Ascending(sort_order))
       IN  \E products \in { Entities(OffsetLimit(rs, offset, limit)) : rs \in sorted } :
                  response' =
                    [items |-> [k \in 1..Len(products) |->
                                   format_product(db.products[products[k]])],
                     total |-> total_count,
                     page |-> page,
                     limit |-> limit,
                     pages |-> Pages(total_count, limit),
                     status |-> "ok",
                     message |-> "get_products",
                     request |-> [category |-> category, trend_score |-> trend_score,
                                  region |-> region, sort_by |-> sort_by,
                                  sort_order |-> sort_order]]
    /\ UNCHANGED <<status, db, passes, loops, startup>>

\* the draws of the Products that are listed
ListDraws ==
    [subs |-> 1,
     trend_score |-> {50},
     engagement_rate |-> {20},
     sales_velocity |-> {10},
     search_volume |-> {30},
     geographic_spread |-> {20},
     prices |-> {<<1000, 1200>>},
     dates |-> {1},
     videos |-> {<<>>},
     regions |-> MockRegions(<<50, 30, 20>>)]

ListCandidates ==
    MockProducts(platforms[1], categories[1], ListDraws)
        \cup MockProducts(platforms[1], categories[2],
                          [ListDraws EXCEPT !.trend_score = {70}])

\* the query parameters drawn: page: int = Query(1, ge=1) and
\* limit: int = Query(10, ge=1, le=100), up to the bounds
ListPages == 1..MaxPage
ListLimits == 1..MaxLimit
ListCategories == {None, "home_decor"}
ListTrendScores == {0, 60}
ListRegions == {None, "United States"}
ListSortBy == {"trend_score", "price"}
ListSortOrders == {"asc", "desc", "ASC"}

NextProducts ==
    \/ \E product_data \in ListCandidates :
          /\ ExistingProducts(db, product_data) = {} => Len(db.products) < MaxListedProducts
          /\ save_products(<<product_data>>)
    \/ \E page \in ListPages, limit \in ListLimits, category \in ListCategories,
          trend_score \in ListTrendScores, region \in ListRegions,
          sort_by \in ListSortBy, sort_order \in ListSortOrders :
            get_products(page, limit, category, trend_score, region, sort_by, sort_order)

SpecProducts == InitUpsert /\ [][NextProducts]_vars

(***************************************************************************)
(* Properties.                                                             *)
(***************************************************************************)
NoForce == \A p \in 1..Len(passes) : ~passes[p].forced

\* C1: a POST /scraper/start without force taken while SCRAPER_RUNNING is true
\* returns the "already running" error response, starts no pass and changes no
\* field of the status register.
C1_AlreadyRunningRejected ==
    [][(status.SCRAPER_RUNNING /\ \E count \in StartCounts : start_scraper(count, FALSE))
        => /\ response'.status = "error"
           /\ response'.message = "Scraper is already running"
           /\ passes' = passes
           /\ status' = status]_vars

\* a start request has just been rejected while one pass is in flight
C1_Witness ==
    /\ response.message = "Scraper is already running"
    /\ status.SCRAPER_RUNNING
    /\ Cardinality(PassesInFlight) = 1

\* C2: as long as no request used force, at most one pass is in flight,
\* whether the passes come from start requests or from the scheduler loop.
C2_OnePassWithoutForce ==
    NoForce => Cardinality(PassesInFlight) <= 1

\* a start request has just been rejected while a pass of the scheduler is in
\* flight, and no request used force
C2_Witness ==
    /\ NoForce
    /\ response.message = "Scraper is already running"
    /\ \E p \in PassesInFlight : passes[p].origin = "scheduler"

C4_RunningUntilCompleted ==
    (\E p \in PassesInFlight : passes[p].origin = "start")
        => get_scraper_status.running

\* C5 (as claimed): while a pass that a start request started has not
\* completed, GET /scraper/status reports progress < 100.
C5_ProgressBelow100 ==
    (\E p \in PassesInFlight : passes[p].origin = "start")
        => get_scraper_status.progress < 100

\* C6 (as claimed): the current_step values passed to the progress callback
\* within one pass, the final call included, never decrease.
C6_StepsNonDecreasing ==
    \A p \in 1..Len(passes) :
        \A k \in 1..(Len(passes[p].steps) - 1) :
            passes[p].steps[k].current <= passes[p].steps[k + 1].current

\* C6 (amended): within one pass the fraction current_step / total_steps
\* passed to the progress callback never decreases, the final call included,
\* and the current_step values of the calls made with the same total_steps
\* increase.
C6_FractionNonDecreasing ==
    \A p \in 1..Len(passes) :
        \A k \in 1..(Len(passes[p].steps) - 1) :
            LET a == passes[p].steps[k]
                b == passes[p].steps[k + 1]
            IN  /\ a.current * b.total <= b.current * a.total
                /\ a.total = b.total => a.current < b.current

\* a pass has completed after the callback of every unit and the final call
C6_Witness ==
    \E p \in 1..Len(passes) :
        /\ passes[p].pc = "done"
        /\ Len(passes[p].steps) = total_steps + 1

\* C7: a pass that has completed made its last callback call with
\* current_step = total_steps.
C7_FinalCallReportsTotal ==
    \A p \in 1..Len(passes) :
        passes[p].pc = "done"
            => /\ passes[p].steps # <<>>
               /\ passes[p].last = passes[p].steps[Len(passes[p].steps)]
                                       @@ [found |-> passes[p].total_found]
               /\ passes[p].last.current = passes[p].last.total

\* one pass has completed on reaching its target count, another one after all
\* units without inserting a Product
C7_Witness ==
    \E p, q \in 1..Len(passes) :
        /\ passes[p].pc = "done"
        /\ passes[p].total_found >= passes[p].count
        /\ passes[q].pc = "done"
        /\ passes[q].total_found = 0
        /\ passes[q].inserted = {}

\* the candidate's metrics and price bounds are all within the thresholds of row
C8_Within(row, c) ==
    /\ \A k \in 1..Len(metrics) :
          100 * Abs(row[metrics[k]] - c[metrics[k]]) <= 5 * Max(1, row[metrics[k]])
    /\ Abs(row.price_range_low - c.price_range_low) <= 50
    /\ Abs(row.price_range_high - c.price_range_high) <= 50

\* C8: saving a candidate whose (name, category) matches a stored Product and
\* whose metrics and price bounds are within the thresholds of the stored
\* values changes no row of the database and leaves total_found; so does
\* saving the candidate of the previous call again.
C8_Idempotent ==
    [][LET c == passes'[1].products[1]
           found == { k \in 1..Len(db.products) :
                        /\ db.products[k].name = c.name
                        /\ db.products[k].category = c.category }
       IN  (\/ found # {} /\ \A k \in found : C8_Within(db.products[k], c)
            \/ passes[1].products = <<c>>)
           => /\ db' = db
              /\ passes'[1].total_found = passes[1].total_found]_vars

\* the last call loaded a row from which its candidate differs within the
\* thresholds, with a date and videos that the Product does not have: nothing
\* was added
C8_Witness ==
    /\ passes[1].pc = "direct"
    /\ passes[1].products # <<>>
    /\ passes[1].existing # NoRow
    /\ LET c == passes[1].products[1]
       IN  /\ C8_Within(passes[1].existing, c)
           /\ c.engagement_rate # passes[1].existing.engagement_rate
           /\ c.price_range_low # passes[1].existing.price_range_low
           /\ c.videos # <<>>
           /\ db.videos = <<>>
           /\ \A k \in 1..Len(db.trends) : db.trends[k].date # c.trends[1].date
           /\ db.products[1] = passes[1].existing

\* C9: when the candidate matches a stored Product, every metric whose change
\* from the stored value exceeds 5% of it is stored with the candidate's value,
\* and total_found is not incremented.
C9_UpdateRule ==
    [][LET c == passes'[1].products[1]
           e == passes'[1].existing
       IN  e # NoRow
           => /\ \A k \in 1..Len(metrics) :
                    100 * Abs(e[metrics[k]] - c[metrics[k]]) > 5 * Max(1, e[metrics[k]])
                        => db'.products[e.id][metrics[k]] = c[metrics[k]]
              /\ passes'[1].total_found = passes[1].total_found]_vars

\* the stored trend_score was 50, the candidate's is 60, and the stored one is now 60
C9_Witness ==
    /\ passes[1].pc = "direct"
    /\ passes[1].products # <<>>
    /\ passes[1].existing # NoRow
    /\ passes[1].existing.trend_score = 50
    /\ passes[1].products[1].trend_score = 60
    /\ db.products[passes[1].existing.id].trend_score = 60
    /\ passes[1].total_found = 1

\* C10: total_found of a pass is the number of Product rows that the pass
\* inserted, at every step, and it is what the final callback reports.
C10_FoundCountsInserts ==
    \A p \in 1..Len(passes) :
        /\ passes[p].total_found = Cardinality(passes[p].inserted)
        /\ passes[p].inserted \subseteq 1..Len(db.products)
        /\ passes[p].pc = "done" => passes[p].last.found = Cardinality(passes[p].inserted)

\* a pass has completed in which some candidates were inserted and others
\* matched rows that it did not insert, and the register holds its count
C10_Witness ==
    \E p \in 1..Len(passes) :
        /\ passes[p].pc = "done"
        /\ passes[p].total_found \in 1..(total_steps - 1)
        /\ status.SCRAPER_FOUND_COUNT = passes[p].total_found
        /\ \E k \in 1..Len(db.products) : k \notin passes[p].inserted

\* the percentages of the Region rows of Product id, in the order of the rows
C11_Percentages(id) ==
    LET owned(r) == r.product_id = id
        rows == SelectSeq(db.regions, owned)
    IN  [k \in 1..Len(rows) |-> rows[k].percentage]

\* C11: every generated product has 3 to 6 Region allocations whose
\* percentages sum to 100, and so has every stored Product.
C11_RegionsSumTo100 ==
    /\ \A p \in 1..Len(passes) : \A k \in 1..Len(passes[p].products) :
          LET regions == passes[p].products[k].regions
          IN  /\ Len(regions) \in 3..6
              /\ Sum([x \in 1..Len(regions) |-> regions[x].percentage]) = 100
    /\ \A id \in ProductIds(db) :
          /\ Len(C11_Percentages(id)) \in 3..6
          /\ Sum(C11_Percentages(id)) = 100

\* a stored Product has six allocations of which the first, 0 after the
\* division, was drawn by each of the five iterations of the first loop
C11_Witness ==
    \E id \in ProductIds(db) :
        /\ Len(C11_Percentages(id)) = 6
        /\ C11_Percentages(id)[1] = 5
        /\ Sum(C11_Percentages(id)) = 100

\* the product_id values of all child rows
C12_Owners ==
    { db.trends[k].product_id : k \in 1..Len(db.trends) }
        \cup { db.regions[k].product_id : k \in 1..Len(db.regions) }
        \cup { db.videos[k].product_id : k \in 1..Len(db.videos) }

\* C12: after any sequence of inserts, updates and deletions of Products,
\* every Trend, Region and Video row refers to a Product that is stored.
C12_NoOrphans == C12_Owners \subseteq ProductIds(db)

\* a Product has been deleted while another one, stored with Trend rows of two
\* dates, Region rows and a Video row, remains
C12_Witness ==
    /\ \E id \in 1..Len(db.products) : id \notin ProductIds(db)
    /\ \E id \in ProductIds(db) :
          /\ Len(NotOwned(db.trends, id)) + 2 = Len(db.trends)
          /\ Len(NotOwned(db.regions, id)) < Len(db.regions)
          /\ Len(NotOwned(db.videos, id)) < Len(db.videos)

\* C13: POST /scraper/stop returns the "not implemented" error response and
\* changes no field of the status register, no scheduler loop, no pass and no
\* row, so a pass in flight goes on as if no request had been made.
C13_StopChangesNothing ==
    [][response'.message = "Stopping scraper jobs not implemented yet"
        => /\ response'.status = "error"
           /\ status' = status
           /\ loops' = loops
           /\ passes' = passes
           /\ db' = db]_vars

\* the stop request has just been answered while a pass executes and the
\* scheduler is active
C13_Witness ==
    /\ response.message = "Stopping scraper jobs not implemented yet"
    /\ status.SCRAPER_RUNNING
    /\ status.SCHEDULER_ACTIVE
    /\ \E p \in PassesInFlight : Executing(passes[p])

\* C14: when the scheduler is inactive, every loop that has not returned
\* returns, unless the scheduler is activated again first.
C14_LoopExits ==
    \A l \in 1..MaxLoops :
        (l <= Len(loops) /\ loops[l].pc # "stopped" /\ ~status.SCHEDULER_ACTIVE)
            ~> (status.SCHEDULER_ACTIVE \/ (l <= Len(loops) /\ loops[l].pc = "stopped"))

\* a loop that ran a pass has returned, the scheduler being inactive
C14_Witness ==
    /\ ~status.SCHEDULER_ACTIVE
    /\ \E l \in 1..Len(loops) :
          /\ loops[l].pc = "stopped"
          /\ \E p \in 1..Len(passes) :
                passes[p].origin = "scheduler" /\ passes[p].loop = l

\* C15: a failed pass or a failed count query does not end the scheduler loop.
\* A loop returns only in a step that finds the scheduler inactive; the step in
\* which the pass of a loop fails, or in which its count query raises, leaves
\* the loop asleep if the scheduler is active; and a sleeping loop executes a
\* later count query unless the scheduler is deactivated first.
C15_LoopSurvivesErrors ==
    /\ [][\A l \in 1..Len(loops) :
            /\ (loops[l].pc # "stopped" /\ loops'[l].pc = "stopped")
                    => ~status.SCHEDULER_ACTIVE
            /\ (/\ loops[l].pc = "pass"
                /\ passes'[loops[l].pass].pc = "failed"
                /\ status.SCHEDULER_ACTIVE)
                    => loops'[l].pc = "sleep"
            /\ (/\ status.SCHEDULER_ACTIVE
                /\ \/ LoopStart(l, "error")
                   \/ LoopWake(l, "error"))
                    => loops'[l].pc = "sleep"]_vars
    /\ \A l \in 1..MaxLoops : \A b \in BOOLEAN :
          (l <= Len(loops) /\ loops[l].pc = "sleep" /\ loops[l].turn = b)
              ~> (~status.SCHEDULER_ACTIVE \/ (l <= Len(loops) /\ loops[l].turn # b))

\* the first pass of a loop has failed and the loop, the scheduler still being
\* active, has started a second pass
C15_Witness ==
    /\ status.SCHEDULER_ACTIVE
    /\ \E l \in 1..Len(loops) : \E p1, p2 \in 1..Len(passes) :
          /\ p1 < p2
          /\ passes[p1].origin = "scheduler" /\ passes[p1].loop = l
          /\ passes[p1].pc = "failed"
          /\ passes[p2].origin = "scheduler" /\ passes[p2].loop = l
          /\ loops[l].pc = "pass" /\ loops[l].pass = p2

\* C16: once process start has completed, a pass has been started.  The store
\* is empty at process start, below the threshold, so the claim's startup
\* check would have started one; a pass started by a request also satisfies
\* this statement, which is weaker than the claim's.
C16_StartupStartsPass ==
    startup = "complete" => passes # <<>>

\* C17: a scheduler loop triggers a pass only when the published next-run time
\* has been reached: the step in which a loop begins to await a pass is the
\* return of the last sleep of a cycle.
C17_PassOnlyAtNextRun ==
    [][\A l \in 1..Len(loops) :
          (loops[l].pc # "pass" /\ loops'[l].pc = "pass")
              => (loops[l].pc = "sleep" /\ loops[l].minute + 1 = MinutesPerCycle)]_vars

\* C18: a scheduler loop starts a pass only in a step that finds the Product
\* count below MAX_PRODUCTS, and a check whose count query returns a count at
\* or above MAX_PRODUCTS starts no pass and leaves SCRAPER_RUNNING and
\* SCRAPER_ERROR as they were.
C18_ThresholdCheck ==
    [][\A l \in 1..Len(loops) :
          /\ (loops[l].pc # "pass" /\ loops'[l].pc = "pass")
                => ProductCount(db) < MAX_PRODUCTS
          /\ (/\ ProductCount(db) >= MAX_PRODUCTS
              /\ status.SCHEDULER_ACTIVE
              /\ \/ LoopStart(l, "ok")
                 \/ LoopWake(l, "ok") /\ loops[l].minute + 1 = MinutesPerCycle)
                => /\ passes' = passes
                   /\ status'.SCRAPER_RUNNING = status.SCRAPER_RUNNING
                   /\ status'.SCRAPER_ERROR = status.SCRAPER_ERROR]_vars

\* the only pass, started by a loop's first count query, has filled the store to
\* the threshold, and the loop's second count query raised nothing and started
\* nothing
C18_Witness ==
    /\ ProductCount(db) >= MAX_PRODUCTS
    /\ status.SCHEDULER_ACTIVE
    /\ status.SCRAPER_ERROR = None
    /\ ~status.SCRAPER_RUNNING
    /\ Len(passes) = 1
    /\ passes[1].origin = "scheduler" /\ passes[1].pc = "done"
    /\ Len(loops) = 1
    /\ loops[1].pc = "sleep" /\ loops[1].turn = FALSE

\* C19: the step in which a pass fails sets SCRAPER_RUNNING to false and
\* SCRAPER_ERROR to the message of the exception, leaves SCRAPER_LAST_RUN as it
\* was, answers no request with the error, and leaves every other pass and the
\* scheduler loops where they were, except that the loop awaiting the pass
\* resumes.
C19_FailureRecorded ==
    [][\A p \in 1..Len(passes) :
          (InFlight(passes[p]) /\ passes'[p].pc = "failed")
              => /\ status'.SCRAPER_RUNNING = FALSE
                 /\ status'.SCRAPER_ERROR =
                        (IF passes[p].pc = "search"
                         THEN "empty range for randrange()" ELSE "db error")
                 /\ status'.SCRAPER_LAST_RUN = status.SCRAPER_LAST_RUN
                 /\ response' = NoResponse
                 /\ \A q \in 1..Len(passes) : q # p => passes'[q] = passes[q]
                 /\ \A l \in 1..Len(loops) :
                       IF passes[p].origin = "scheduler" /\ passes[p].loop = l
                       THEN loops'[l].pc = (IF status.SCHEDULER_ACTIVE
                                            THEN "sleep" ELSE "stopped")
                       ELSE loops'[l] = loops[l]]_vars

\* a pass has failed after an earlier pass completed: the time of the completed
\* run is still in the register, next to the error
C19_Witness ==
    /\ ~status.SCRAPER_RUNNING
    /\ status.SCRAPER_ERROR \in {"empty range for randrange()", "db error"}
    /\ status.SCRAPER_LAST_RUN = "func.now()"
    /\ \E p, q \in 1..Len(passes) :
          /\ p < q
          /\ passes[p].pc = "done"
          /\ passes[q].pc = "failed"

\* C20: the step in which a pass fails leaves the store as it was, the Product
\* rows the pass added stay in the store with their Trend and Region rows, and
\* a failed pass takes no further step: its unit (i, j), its callback calls and
\* its rows stay as they were at the failure.
C20_AbortKeepsCommitted ==
    /\ [][\A p \in 1..Len(passes) :
            /\ (InFlight(passes[p]) /\ passes'[p].pc = "failed")
                  => /\ db' = db
                     /\ passes'[p].inserted = passes[p].inserted
                     /\ passes'[p].i = passes[p].i /\ passes'[p].j = passes[p].j
                     /\ passes'[p].steps = passes[p].steps
            /\ passes[p].pc = "failed" => passes'[p] = passes[p]]_vars
    /\ [](\A p \in 1..Len(passes) :
            passes[p].pc = "failed"
                => \A id \in passes[p].inserted :
                      /\ id \in ProductIds(db)
                      /\ \E k \in 1..Len(db.trends) : db.trends[k].product_id = id
                      /\ \E k \in 1..Len(db.regions) : db.regions[k].product_id = id)

\* a pass has failed after it added a Product, with units of its loops left
C20_Witness ==
    \E p \in 1..Len(passes) :
        /\ passes[p].pc = "failed"
        /\ passes[p].inserted # {}
        /\ passes[p].inserted \subseteq ProductIds(db)
        /\ HasNextUnit(passes[p])

\* ceil(n / limit), computed without the source's formula
C21_Ceil(n, limit) == IF n % limit = 0 THEN n \div limit ELSE n \div limit + 1

\* C21: GET /products/ answers with pages = ceil(total / limit), total being
\* the number of Products that match the filters, and with the items at
\* offsets (page-1)*limit .. page*limit-1 of the sorted matching Products:
\* at most limit items, none when the offset is past the end.
C21_Pagination ==
    [][LET r == response'
       IN  (/\ r.message = "get_products"
            /\ get_products(r.page, r.limit, r.request.category,
                            r.request.trend_score, r.request.region,
                            r.request.sort_by, r.request.sort_order))
           => LET matching == Filtered(db, r.request.category,
                                       r.request.trend_score, r.request.region)
                  n == Cardinality(matching)
                  offset == (r.page - 1) * r.limit
              IN  /\ r.total = n
                  /\ r.pages = C21_Ceil(n, r.limit)
                  /\ Len(r.items) <= r.limit
                  /\ \E sorted \in Ordered(db, { <<k, 0>> : k \in matching },
                                           SortField(r.request.sort_by),
                                           Ascending(r.request.sort_order)) :
                        /\ Len(r.items) = Len(OffsetLimit(sorted, offset, r.limit))
                        /\ \A k \in 1..Len(r.items) :
                              r.items[k].id = OffsetLimit(sorted, offset, r.limit)[k][1]]_vars

\* C22: with a sort_by outside the allow-list GET /products/ answers, whatever
\* sort_order is, with the items in descending order of trend_score.
C22_UnknownSortDescending ==
    [][LET r == response'
       IN  (/\ r.message = "get_products"
            /\ r.request.sort_by \notin valid_sort_fields
            /\ get_products(r.page, r.limit, r.request.category,
                            r.request.trend_score, r.request.region,
                            r.request.sort_by, r.request.sort_order))
           => /\ r.status = "ok"
              /\ \A k \in 1..(Len(r.items) - 1) :
                    r.items[k].trend_score >= r.items[k + 1].trend_score]_vars

\* C23: a scheduler loop starts a pass only in a step that finds
\* SCHEDULER_ACTIVE true, the test of the flag and the start of the pass being
\* one uninterrupted step; so while the scheduler stays inactive no pass of
\* the scheduler is added.
C23_NoPassWhenInactive ==
    [][/\ \A l \in 1..Len(loops) :
            (loops[l].pc # "pass" /\ loops'[l].pc = "pass")
                => status.SCHEDULER_ACTIVE
       /\ (~status.SCHEDULER_ACTIVE /\ ~status'.SCHEDULER_ACTIVE)
            => /\ Len(passes') >= Len(passes)
               /\ \A p \in (Len(passes) + 1)..Len(passes') :
                     passes'[p].origin # "scheduler"]_vars

\* a loop has returned, the scheduler inactive, at a moment when the check
\* would have started a pass: no pass runs and the store is below the
\* threshold
C23_Witness ==
    /\ ~status.SCHEDULER_ACTIVE
    /\ ~status.SCRAPER_RUNNING
    /\ ProductCount(db) < MAX_PRODUCTS
    /\ Len(passes) < MaxPasses
    /\ \E l \in 1..Len(loops) : loops[l].pc = "stopped"

\* C24: at most one scheduler loop is alive: of the start_scheduler tasks that
\* have begun, at most one has not returned.
C24_OneLoopAlive ==
    Cardinality({ l \in 1..Len(loops) : loops[l].pc \in {"sleep", "pass"} }) <= 1

\* the (name, category) pairs that more than one Product row of d holds
Duplicates(d) ==
    { <<d.products[k].name, d.products[k].category>> :
        k \in { x \in ProductIds(d) :
                  \E y \in ProductIds(d) :
                      /\ y # x
                      /\ d.products[y].name = d.products[x].name
                      /\ d.products[y].category = d.products[x].category } }

C26_NewPairs(d, batch) ==
    { <<batch[k].name, batch[k].category>> : k \in 1..Len(batch) } \
        { <<d.products[k].name, d.products[k].category>> : k \in ProductIds(d) }

\* C26: with _save_products calls that run one after the other the store
\* never holds a (name, category) twice, and a call inserts one Product for
\* each (name, category) of its batch that the store did not hold, however
\* many candidates of the batch carry it.
C26_OneProductPerPair ==
    /\ [](Duplicates(db) = {})
    /\ [][/\ Len(db'.products) - Len(db.products)
              = Cardinality(C26_NewPairs(db, passes'[1].products))
          /\ passes'[1].total_found - passes[1].total_found
              = Len(db'.products) - Len(db.products)]_vars

\* the last call had two candidates with one (name, category) that the store
\* did not hold: one Product was inserted
C26_Witness ==
    /\ Len(passes[1].products) = 2
    /\ passes[1].products[1].name = passes[1].products[2].name
    /\ passes[1].products[1].trend_score # passes[1].products[2].trend_score
    /\ Len(db.products) = 1
    /\ passes[1].total_found = 1
    /\ passes[1].inserted = {1}
    /\ db.products[1].trend_score = passes[1].products[2].trend_score

\* C27: no Product owns two Video rows with the same video_url.
C27_NoDuplicateVideos ==
    \A a, b \in 1..Len(db.videos) :
        (/\ db.videos[a].product_id = db.videos[b].product_id
         /\ db.videos[a].video_url = db.videos[b].video_url)
            => a = b

\* C28: when the candidate matches a stored Product, each of the five metrics
\* is stored with the candidate's value if 100 * |old - new| > 5 * max(1, old)
\* and keeps its stored value otherwise, whatever the other metrics and the
\* price do.
C28_MetricsIndependent ==
    [][LET c == passes'[1].products[1]
           e == passes'[1].existing
       IN  e # NoRow
           => \A k \in 1..Len(metrics) :
                 db'.products[e.id][metrics[k]] =
                    IF 100 * Abs(e[metrics[k]] - c[metrics[k]]) > 5 * Max(1, e[metrics[k]])
                    THEN c[metrics[k]]
                    ELSE db.products[e.id][metrics[k]]]_vars

\* the stored engagement_rate was 100 and the candidate's 95, exactly 5% less,
\* while the trend_score went from 50 to 60: the trend_score is stored and the
\* engagement_rate is still 100
C28_Witness ==
    /\ passes[1].pc = "direct"
    /\ passes[1].products # <<>>
    /\ passes[1].existing # NoRow
    /\ passes[1].existing.engagement_rate = 100
    /\ passes[1].products[1].engagement_rate = 95
    /\ passes[1].existing.trend_score = 50
    /\ passes[1].products[1].trend_score = 60
    /\ db.products[passes[1].existing.id].trend_score = 60
    /\ db.products[passes[1].existing.id].engagement_rate = 100

\* the percentages of the Region rows of Product id, in the order of the rows
C29_Stored(d, id) ==
    LET own == SelectSeq(d.regions, LAMBDA r : r.product_id = id)
    IN  [k \in 1..Len(own) |-> own[k].percentage]

\* C29: a _save_products call leaves every Region row that was stored as it
\* was, and the Region rows it adds belong to the Products it inserts: a
\* candidate that matches a stored Product adds, changes and removes none.
C29_RegionsOnlyOnInsert ==
    [][/\ Len(db'.regions) >= Len(db.regions)
       /\ SubSeq(db'.regions, 1, Len(db.regions)) = db.regions
       /\ \A k \in (Len(db.regions) + 1)..Len(db'.regions) :
             db'.regions[k].product_id > Len(db.products)]_vars

\* the last call updated a stored Product from a candidate whose region
\* percentages differ from the stored ones, which are still the stored ones
C29_Witness ==
    /\ Len(passes[1].products) = 1
    /\ passes[1].existing # NoRow
    /\ passes[1].existing.trend_score # passes[1].products[1].trend_score
    /\ db.products[passes[1].existing.id].trend_score = passes[1].products[1].trend_score
    /\ C29_Stored(db, passes[1].existing.id)
          # [k \in 1..Len(passes[1].products[1].regions) |->
                passes[1].products[1].regions[k].percentage]
    /\ Len(C29_Stored(db, passes[1].existing.id)) = 3

\* C30: whenever a pass is executing, whatever started it and with or without
\* force, SCRAPER_RUNNING is true.
C30_RunningWhileExecuting ==
    (\E p \in 1..Len(passes) : Executing(passes[p])) => status.SCRAPER_RUNNING

C32_Small(ps) == (ps.count \div Len(platforms)) \div Len(categories) = 0

\* C32: a pass whose target count is below the number of (category, platform)
\* units aborts in its first unit: the step after its first callback ends it
\* with the error recorded and the running flag cleared, it has inserted no
\* Product and its only callback call is the one of unit (0, 0).
C32_SmallCountAborts ==
    /\ [](\A p \in 1..Len(passes) :
            C32_Small(passes[p]) =>
                /\ passes[p].pc \in {"queued", "search", "failed"}
                /\ passes[p].inserted = {}
                /\ passes[p].total_found = 0)
    /\ [][\A p \in 1..Len(passes) :
            (C32_Small(passes[p]) /\ passes[p].pc = "search"
                /\ passes'[p] # passes[p]) =>
                /\ passes'[p].pc = "failed"
                /\ passes[p].i = 0 /\ passes[p].j = 0
                /\ passes'[p].steps = <<[current |-> 0, total |-> total_steps]>>
                /\ db' = db
                /\ ~status'.SCRAPER_RUNNING
                /\ status'.SCRAPER_ERROR # None]_vars

\* a pass with a target count below the number of units has aborted
C32_Witness ==
    \E p \in 1..Len(passes) :
        /\ C32_Small(passes[p])
        /\ passes[p].pc = "failed"
        /\ passes[p].steps = <<[current |-> 0, total |-> total_steps]>>
        /\ ~status.SCRAPER_RUNNING
        /\ status.SCRAPER_ERROR = "empty range for randrange()"

\* C33: scheduler_active and next_run agree in every state: next_run is null
\* exactly when scheduler_active is false, so no loop iteration publishes a
\* next run after a deactivation has cleared it.
C33_NextRunAgrees ==
    (status.SCRAPER_NEXT_RUN = None) <=> ~status.SCHEDULER_ACTIVE

\* a loop has taken its step after a deactivation and ended, and another loop,
\* spawned by a later activation that was deactivated again, is still to step
C33_Witness ==
    /\ ~status.SCHEDULER_ACTIVE
    /\ status.SCRAPER_NEXT_RUN = None
    /\ \E l \in 1..Len(loops) : loops[l].pc = "stopped"
    /\ \E l \in 1..Len(loops) : loops[l].pc \in {"queued", "sleep"}

\* C34: while one pass is in flight and no other pass overlaps it, the progress
\* of the status register stays within 0..100 and never decreases from the
\* pass's first progress callback to its end, the final callback (1, 1) and
\* the completion included.  Passes overlap only after a start with force, so
\* the steps are those of behaviours in which no start was forced.
C34_ProgressNonDecreasing ==
    [][\A p \in 1..Len(passes) :
        (/\ Executing(passes[p])
         /\ PassesInFlight = {p}
         /\ \A q \in 1..Len(passes') :
                ~passes'[q].forced /\ (InFlight(passes'[q]) => q = p)) =>
            /\ status.SCRAPER_PROGRESS \in 0..100
            /\ status'.SCRAPER_PROGRESS \in 0..100
            /\ status'.SCRAPER_PROGRESS >= status.SCRAPER_PROGRESS]_vars

\* the only pass of the behaviour has made a callback for every unit and the
\* final one, and has completed
C34_Witness ==
    /\ Len(passes) = 1
    /\ passes[1].pc = "done"
    /\ Len(passes[1].steps) = total_steps + 1
    /\ passes[1].steps[total_steps] = [current |-> total_steps - 1, total |-> total_steps]
    /\ passes[1].last = [current |-> 1, total |-> 1, found |-> passes[1].total_found]
    /\ status.SCRAPER_PROGRESS = 100

============================================================================
